---- MODULE Spec2Model ----
(***************************************************************************)
(* Model of dwebp/src/lib.rs: awebp_to_single_png and awebp_to_multi_png.  *)
(*                                                                         *)
(* The animated-WebP decoder and the PNG encoder are external crates.  The *)
(* input bytes are modelled by what the decoder makes of them: whether     *)
(* Decoder::new accepts them, and the finite forward-only sequence of      *)
(* frames its iterator yields.  Each frame carries its pixel data and the  *)
(* outcome of into_image and of PngEncoder::write_image on it.             *)
(*                                                                         *)
(* A behaviour is a series of calls on one input.  Each call is stepped    *)
(* through the positions of its code: opening the decoder, every next() on *)
(* the frame iterator, into_image, write_image.  The previous call and its *)
(* result are remembered so that two calls on the same bytes compare.      *)
(***************************************************************************)
EXTENDS Integers, Sequences, FiniteSets, TLC

\* ---------------------------------------------------------------- bounds
MaxFrames == 3
NumPixels == 2
MaxN == MaxFrames + 1

\* ---------------------------------------------------------------- inputs
Pixels == 1..NumPixels

\* A decoded frame: pixel data, whether into_image succeeds on it, whether
\* write_image succeeds on the image made from it.
GoodFrame(d) == [data |-> d, rgba |-> TRUE, writable |-> TRUE]
BadColorFrame == [data |-> 1, rgba |-> FALSE, writable |-> TRUE]
UnwritableFrame == [data |-> 1, rgba |-> TRUE, writable |-> FALSE]
Frames == {GoodFrame(d) : d \in Pixels} \cup {BadColorFrame, UnwritableFrame}

FrameSeqs == UNION {[1..k -> Frames] : k \in 0..MaxFrames}

\* The input bytes, as the decoder sees them.
Bytes == [valid : BOOLEAN, frames : FrameSeqs]

\* AwebpFramePosition, and None for impl Into<Option<AwebpFramePosition>>.
First == [tag |-> "First", n |-> 0]
Last == [tag |-> "Last", n |-> 0]
Specific(k) == [tag |-> "Specific", n |-> k]
None == [tag |-> "None", n |-> 0]
AwebpFramePosition == {First, Last} \cup {Specific(k) : k \in 0..MaxN}

\* A call: which function, and its frame_position argument.
SingleCalls == [fn : {"single"}, pos : AwebpFramePosition \cup {None}]
MultiCall == [fn |-> "multi", pos |-> None]
Calls == SingleCalls \cup {MultiCall}

\* AwebpToPngError
DecodeAwebpFailed == "DecodeAwebpFailed"
AwebpSpecificFrameIsNone == "AwebpSpecificFrameIsNone"
ToImageFailed == "ToImageFailed"
EncodePngFailed == "EncodePngFailed"
AwebpToPngError ==
    {DecodeAwebpFailed, AwebpSpecificFrameIsNone, ToImageFailed, EncodePngFailed}

\* Result<_, AwebpToPngError>, and the value of a call still running.
Ok(v) == [kind |-> "Ok", val |-> v, err |-> "-"]
Err(e) == [kind |-> "Err", val |-> <<>>, err |-> e]
Pending == [kind |-> "Pending", val |-> <<>>, err |-> "-"]

NoFrame == -1
NoCall == [fn |-> "none", pos |-> None]

\* ------------------------------------------------------- pure operations
Max(a, b) == IF a >= b THEN a ELSE b
Min(a, b) == IF a <= b THEN a ELSE b

\* frame_position.into().unwrap_or_default()
UnwrapOrDefaultLast(p) == IF p = None THEN Last ELSE p
UnwrapOrDefault(p) == IF p = None THEN First ELSE p

\* AwebPDecoder::new(bytes).map_err(..): TRUE when the decoder opens.
DecoderNewAlways(b) == TRUE
DecoderNew(b) == b.valid

\* let n = max(1, n);
ClampNone(n) == n
Clamp(n) == Max(1, n)

\* The index the find predicate compares the enumerate index with.
TargetOneBased(fp) == IF fp.tag = "Specific" THEN Clamp(fp.n) ELSE 1
Target(fp) == IF fp.tag = "Specific" THEN Clamp(fp.n) - 1 ELSE 0

\* .ok_or(AwebpToPngError::AwebpSpecificFrameIsNone)
OkOrDecodeFailed(found) == IF found THEN "-" ELSE DecodeAwebpFailed
OkOr(found) == IF found THEN "-" ELSE AwebpSpecificFrameIsNone

\* Frame::into_image: the RGBA image of the frame.
IntoImage(f) == [width |-> 1, height |-> 1, bytes |-> <<f.data, f.data, f.data, 255>>]

\* PngEncoder::new(&mut buf).write_image(..): the bytes left in buf.
WriteImage(img) == <<"PNG", img.width, img.height>> \o img.bytes

\* Vec::push as done by collect.
CollectFront(list, buf) == <<buf>> \o list
Collect(list, buf) == Append(list, buf)

\* ------------------------------------------------------------------ state
VARIABLES
    bytes,           \* awebp_bytes
    call,            \* the running call: function and frame_position argument
    pc,              \* position in the running call
    frame_position,  \* the resolved AwebpFramePosition (single)
    pulled,          \* 0-based indices of the frames next() has yielded
    webp_frame,      \* index of the frame held (find result / last's fold / map item)
    image,           \* frame index whose image is held, NoFrame if none
    converted,       \* frame indices into_image was called on, in order
    encoded,         \* frame indices write_image was called on, in order
    list,            \* buffers collected so far (multi)
    result,          \* the value returned
    phases,          \* phases entered by the running call, in order
    prev             \* the previous call on the same bytes and its result

vars == <<bytes, call, pc, frame_position, pulled, webp_frame, image,
          converted, encoded, list, result, phases, prev>>

N == Len(bytes.frames)
FrameAt(i) == bytes.frames[i + 1]
\* What the iterator's next() yields: the index of the next frame, or NoFrame.
IterNext == IF Len(pulled) < N THEN Len(pulled) ELSE NoFrame

Start(c) ==
    /\ call' = c
    /\ pc' = "open"
    /\ frame_position' = None
    /\ pulled' = <<>>
    /\ webp_frame' = NoFrame
    /\ image' = NoFrame
    /\ converted' = <<>>
    /\ encoded' = <<>>
    /\ list' = <<>>
    /\ result' = Pending
    /\ phases' = <<>>

Init ==
    /\ bytes \in Bytes
    /\ call \in Calls
    /\ pc = "open"
    /\ frame_position = None
    /\ pulled = <<>>
    /\ webp_frame = NoFrame
    /\ image = NoFrame
    /\ converted = <<>>
    /\ encoded = <<>>
    /\ list = <<>>
    /\ result = Pending
    /\ phases = <<>>
    /\ prev = [call |-> NoCall, result |-> Pending]

Return(r) ==
    /\ result' = r
    /\ pc' = "done"

\* ------------------------------------------------- awebp_to_single_png
\* Lines 26-31: resolve the position, open the decoder.
SingleOpen ==
    /\ call.fn = "single"
    /\ pc = "open"
    /\ frame_position' = UnwrapOrDefault(call.pos)
    /\ phases' = Append(phases, "open")
    /\ IF DecoderNew(bytes)
         THEN /\ pc' = "select"
              /\ UNCHANGED result
         ELSE Return(Err(DecodeAwebpFailed))
    /\ UNCHANGED <<bytes, call, pulled, webp_frame, image, converted, encoded,
                   list, prev>>

EnterSelect == IF Len(phases) > 0 /\ phases[Len(phases)] = "select"
                 THEN phases ELSE Append(phases, "select")

\* SingleFind with the position validated against the frame count up front.
SingleFindLengthCheck ==
    /\ call.fn = "single"
    /\ pc = "select"
    /\ frame_position.tag \in {"First", "Specific"}
    /\ phases' = EnterSelect
    /\ LET f == IterNext
           i == Len(pulled)
       IN IF f = NoFrame \/ Target(frame_position) >= N
            THEN /\ Return(Err(OkOr(FALSE)))
                 /\ UNCHANGED <<pulled, webp_frame>>
            ELSE /\ pulled' = Append(pulled, f)
                 /\ IF i = Target(frame_position)
                      THEN /\ webp_frame' = f
                           /\ pc' = "convert"
                      ELSE /\ UNCHANGED webp_frame
                           /\ pc' = "select"
                 /\ UNCHANGED result
    /\ UNCHANGED <<bytes, call, frame_position, image, converted, encoded,
                   list, prev>>

\* Lines 34-49: one next() of enumerate().find(|(i, _)| *i == target).
SingleFind ==
    /\ call.fn = "single"
    /\ pc = "select"
    /\ frame_position.tag \in {"First", "Specific"}
    /\ phases' = EnterSelect
    /\ LET f == IterNext
           i == Len(pulled)
       IN IF f = NoFrame
            THEN /\ Return(Err(OkOr(FALSE)))
                 /\ UNCHANGED <<pulled, webp_frame>>
            ELSE /\ pulled' = Append(pulled, f)
                 /\ IF i = Target(frame_position)
                      THEN /\ webp_frame' = f
                           /\ pc' = "convert"
                      ELSE /\ UNCHANGED webp_frame
                           /\ pc' = "select"
                 /\ UNCHANGED result
    /\ UNCHANGED <<bytes, call, frame_position, image, converted, encoded,
                   list, prev>>

\* Lines 50-52: one next() of Iterator::last, which folds to the final item.
SingleLast ==
    /\ call.fn = "single"
    /\ pc = "select"
    /\ frame_position.tag = "Last"
    /\ phases' = EnterSelect
    /\ LET f == IterNext
       IN IF f = NoFrame
            THEN /\ IF webp_frame = NoFrame
                      THEN Return(Err(OkOr(FALSE)))
                      ELSE /\ pc' = "convert"
                           /\ UNCHANGED result
                 /\ UNCHANGED <<pulled, webp_frame>>
            ELSE /\ pulled' = Append(pulled, f)
                 /\ webp_frame' = f
                 /\ pc' = "select"
                 /\ UNCHANGED result
    /\ UNCHANGED <<bytes, call, frame_position, image, converted, encoded,
                   list, prev>>

\* SingleConvert without the early return of `?`: the error is dropped and
\* the encoding step still runs.
SingleConvertNoReturn ==
    /\ call.fn = "single"
    /\ pc = "convert"
    /\ phases' = Append(phases, "convert")
    /\ converted' = Append(converted, webp_frame)
    /\ image' = webp_frame
    /\ pc' = "encode"
    /\ UNCHANGED <<bytes, call, frame_position, pulled, webp_frame, encoded,
                   list, result, prev>>

\* SingleConvert applied to every frame pulled so far instead of the selected
\* one (conversion mapped over the iterator before the selection).
SingleConvertPulled ==
    /\ call.fn = "single"
    /\ pc = "convert"
    /\ phases' = Append(phases, "convert")
    /\ converted' = converted \o pulled
    /\ IF \A k \in 1..Len(pulled) : FrameAt(pulled[k]).rgba
         THEN /\ image' = webp_frame
              /\ pc' = "encode"
              /\ UNCHANGED result
         ELSE /\ Return(Err(ToImageFailed))
              /\ UNCHANGED image
    /\ UNCHANGED <<bytes, call, frame_position, pulled, webp_frame, encoded,
                   list, prev>>

\* Lines 55-57: webp_frame.into_image().map_err(..)?
SingleConvert ==
    /\ call.fn = "single"
    /\ pc = "convert"
    /\ phases' = Append(phases, "convert")
    /\ converted' = Append(converted, webp_frame)
    /\ IF FrameAt(webp_frame).rgba
         THEN /\ image' = webp_frame
              /\ pc' = "encode"
              /\ UNCHANGED result
         ELSE /\ Return(Err(ToImageFailed))
              /\ UNCHANGED image
    /\ UNCHANGED <<bytes, call, frame_position, pulled, webp_frame, encoded,
                   list, prev>>

\* Lines 63-78: PngEncoder::write_image into buf, Ok(buf).
SingleEncode ==
    /\ call.fn = "single"
    /\ pc = "encode"
    /\ phases' = Append(phases, "encode")
    /\ encoded' = Append(encoded, image)
    /\ IF FrameAt(image).writable
         THEN Return(Ok(WriteImage(IntoImage(FrameAt(image)))))
         ELSE Return(Err(EncodePngFailed))
    /\ UNCHANGED <<bytes, call, frame_position, pulled, webp_frame, image,
                   converted, list, prev>>

\* -------------------------------------------------- awebp_to_multi_png
\* Lines 82-85: open the decoder.
MultiOpen ==
    /\ call.fn = "multi"
    /\ pc = "open"
    /\ phases' = Append(phases, "open")
    /\ IF DecoderNew(bytes)
         THEN /\ pc' = "next"
              /\ UNCHANGED result
         ELSE Return(Err(DecodeAwebpFailed))
    /\ UNCHANGED <<bytes, call, frame_position, pulled, webp_frame, image,
                   converted, encoded, list, prev>>

\* Lines 87, 106: collect pulls the next frame from the map adapter, or ends.
MultiNext ==
    /\ call.fn = "multi"
    /\ pc = "next"
    /\ phases' = Append(phases, "next")
    /\ LET f == IterNext
       IN IF f = NoFrame
            THEN /\ Return(Ok(list))
                 /\ UNCHANGED <<pulled, webp_frame>>
            ELSE /\ pulled' = Append(pulled, f)
                 /\ webp_frame' = f
                 /\ pc' = "convert"
                 /\ UNCHANGED result
    /\ UNCHANGED <<bytes, call, frame_position, image, converted, encoded,
                   list, prev>>

\* MultiConvert that skips a frame it cannot convert (filter_map instead of
\* a short-circuiting collect).
MultiConvertSkip ==
    /\ call.fn = "multi"
    /\ pc = "convert"
    /\ phases' = Append(phases, "convert")
    /\ converted' = Append(converted, webp_frame)
    /\ IF FrameAt(webp_frame).rgba
         THEN /\ image' = webp_frame
              /\ pc' = "encode"
         ELSE /\ pc' = "next"
              /\ UNCHANGED image
    /\ UNCHANGED <<bytes, call, frame_position, pulled, webp_frame, encoded,
                   list, result, prev>>

\* Lines 89-91: the closure's into_image; an Err ends collect.
MultiConvert ==
    /\ call.fn = "multi"
    /\ pc = "convert"
    /\ phases' = Append(phases, "convert")
    /\ converted' = Append(converted, webp_frame)
    /\ IF FrameAt(webp_frame).rgba
         THEN /\ image' = webp_frame
              /\ pc' = "encode"
              /\ UNCHANGED result
         ELSE /\ Return(Err(ToImageFailed))
              /\ UNCHANGED image
    /\ UNCHANGED <<bytes, call, frame_position, pulled, webp_frame, encoded,
                   list, prev>>

\* Lines 93-104: the closure's write_image; Ok(buf) is pushed by collect.
MultiEncode ==
    /\ call.fn = "multi"
    /\ pc = "encode"
    /\ phases' = Append(phases, "encode")
    /\ encoded' = Append(encoded, image)
    /\ IF FrameAt(image).writable
         THEN /\ list' = Collect(list, WriteImage(IntoImage(FrameAt(image))))
              /\ pc' = "next"
              /\ UNCHANGED result
         ELSE /\ Return(Err(EncodePngFailed))
              /\ UNCHANGED list
    /\ UNCHANGED <<bytes, call, frame_position, pulled, webp_frame, image,
                   converted, prev>>

\* ---------------------------------------------------------------- caller
\* The call has returned; the caller makes another call on the same bytes.
NextCall ==
    /\ pc = "done"
    /\ prev' = [call |-> call, result |-> result]
    /\ \E c \in Calls : Start(c)
    /\ UNCHANGED bytes

SingleStep == SingleOpen \/ SingleFind \/ SingleLast \/ SingleConvert \/ SingleEncode
MultiStep == MultiOpen \/ MultiNext \/ MultiConvert \/ MultiEncode

Next ==
    \/ SingleOpen
    \/ SingleFind
    \/ SingleLast
    \/ SingleConvert
    \/ SingleEncode
    \/ MultiOpen
    \/ MultiNext
    \/ MultiConvert
    \/ MultiEncode
    \/ NextCall

Spec == Init /\ [][Next]_vars

\* Both functions are synchronous: a call that has started runs to its return.
FairSpec == Spec /\ WF_vars(SingleStep \/ MultiStep)

TypeOK ==
    /\ bytes \in Bytes
    /\ call \in Calls
    /\ pc \in {"open", "select", "next", "convert", "encode", "done"}
    /\ webp_frame \in NoFrame..(N - 1)
    /\ image \in NoFrame..(N - 1)
    /\ result.kind \in {"Pending", "Ok", "Err"}

\* ============================================================ properties
Done == pc = "done"
SingleDone == Done /\ call.fn = "single"
MultiDone == Done /\ call.fn = "multi"
BothSingle == SingleDone /\ prev.call.fn = "single"

Good(f) == f.rgba /\ f.writable
AllGood == \A k \in 1..N : Good(bytes.frames[k])
\* The output buffer that frame i (0-based) encodes to.
Encoding(i) == WriteImage(IntoImage(FrameAt(i)))
\* The outcome of conversion and encoding on one frame.
FrameOutcome(f) ==
    IF ~f.rgba THEN Err(ToImageFailed)
    ELSE IF ~f.writable THEN Err(EncodePngFailed)
    ELSE Ok(WriteImage(IntoImage(f)))
Upto(k) == [j \in 1..k |-> j - 1]
\* Some pair of frames in the input has different pixels.
Distinct == \E a, b \in 1..N : bytes.frames[a].data # bytes.frames[b].data

\* C1: with N >= 1 frames, all convertible and encodable, a single-frame call
\* returns the encoding of frame 0 for First and for an absent policy, of
\* frame max(1, n) - 1 for Specific(n) when max(1, n) <= N, and of frame
\* N - 1 for Last.
C1_SelectedFrame ==
    (SingleDone /\ bytes.valid /\ N >= 1 /\ AllGood) =>
        /\ (call.pos \in {First, None}) => result = Ok(Encoding(0))
        /\ (call.pos.tag = "Specific" /\ Max(1, call.pos.n) <= N)
              => result = Ok(Encoding(Max(1, call.pos.n) - 1))
        /\ (call.pos = Last) => result = Ok(Encoding(N - 1))

C1_Witness ==
    /\ SingleDone /\ bytes.valid /\ N = 3 /\ AllGood
    /\ call.pos = Specific(2)
    /\ result = Ok(Encoding(1))
    /\ Encoding(1) # Encoding(0) /\ Encoding(1) # Encoding(2)

\* C2: when the decoder opens but the position cannot be satisfied (Specific(n)
\* with n > N, or any policy on an empty sequence), the single-frame call
\* fails with AwebpSpecificFrameIsNone.
C2_FrameNotFound ==
    (/\ SingleDone /\ bytes.valid
     /\ \/ N = 0
        \/ call.pos.tag = "Specific" /\ call.pos.n > N)
    => result = Err(AwebpSpecificFrameIsNone)

C2_Witness ==
    /\ SingleDone /\ bytes.valid /\ N = 3
    /\ call.pos = Specific(4)
    /\ result = Err(AwebpSpecificFrameIsNone)

\* C3: on the same input, Specific(0), Specific(1) and First give the same
\* outcome (the same buffer or the same error).
C3_ClampEquivalence ==
    (/\ BothSingle
     /\ call.pos \in {First, Specific(0), Specific(1)}
     /\ prev.call.pos \in {First, Specific(0), Specific(1)})
    => result = prev.result

C3_Witness ==
    /\ BothSingle /\ bytes.valid /\ N >= 2 /\ Distinct
    /\ call.pos = Specific(0)
    /\ prev.call.pos = Specific(1)
    /\ result = Ok(Encoding(0))
    /\ prev.result = result

\* C4: on N frames that all convert and encode, the all-frames call returns
\* exactly N buffers and the i-th is the encoding of the i-th frame.
C4_MultiAllFrames ==
    (MultiDone /\ bytes.valid /\ AllGood) =>
        /\ result.kind = "Ok"
        /\ Len(result.val) = N
        /\ \A k \in 1..N : result.val[k] = Encoding(k - 1)

C4_Witness ==
    /\ MultiDone /\ bytes.valid /\ AllGood /\ N = 3
    /\ bytes.frames[1].data # bytes.frames[3].data
    /\ result.kind = "Ok"
    /\ Len(result.val) = 3

\* C5: with N >= 1 frames, Specific(N) and Last give the same outcome; with
\* N = 1, First, Specific(1) and Last all give the same outcome.
C5_Policies == IF N = 1 THEN {First, Specific(1), Last} ELSE {Specific(N), Last}
C5_LastIsSpecificN ==
    (/\ BothSingle /\ bytes.valid /\ N >= 1
     /\ call.pos \in C5_Policies
     /\ prev.call.pos \in C5_Policies)
    => result = prev.result

C5_Witness ==
    /\ BothSingle /\ bytes.valid /\ N = 3
    /\ bytes.frames[3].data # bytes.frames[1].data
    /\ bytes.frames[3].data # bytes.frames[2].data
    /\ call.pos = Last
    /\ prev.call.pos = Specific(3)
    /\ result = Ok(Encoding(2))
    /\ prev.result = result

\* C6: when the decoder rejects the bytes, both functions fail with
\* DecodeAwebpFailed; no frame is pulled, nothing is converted or encoded and
\* no buffer is produced.
C6_DecodeFailed ==
    (~bytes.valid) =>
        /\ pulled = <<>>
        /\ converted = <<>>
        /\ encoded = <<>>
        /\ list = <<>>
        /\ pc \in {"open", "done"}
        /\ result.kind # "Ok"
        /\ Done => result = Err(DecodeAwebpFailed)

C6_Witness ==
    /\ ~bytes.valid /\ N = 2 /\ AllGood
    /\ MultiDone
    /\ prev.call = [fn |-> "single", pos |-> Last]
    /\ result = Err(DecodeAwebpFailed)
    /\ prev.result = Err(DecodeAwebpFailed)

\* C7: the all-frames call is fail-fast: if frame k is the first that fails to
\* convert or encode, the call returns that frame's error alone, and no frame
\* after k is pulled, converted or encoded.
SomeBad == \E k \in 1..N : ~Good(bytes.frames[k])
FirstBad == CHOOSE k \in 0..(N - 1) :
                /\ ~Good(FrameAt(k))
                /\ \A j \in 0..(k - 1) : Good(FrameAt(j))
C7_MultiFailFast ==
    (call.fn = "multi" /\ bytes.valid /\ SomeBad) =>
        LET k == FirstBad IN
        /\ \A j \in 1..Len(pulled) : pulled[j] <= k
        /\ \A j \in 1..Len(converted) : converted[j] <= k
        /\ \A j \in 1..Len(encoded) : encoded[j] <= k
        /\ Done =>
            /\ result = Err(IF FrameAt(k).rgba THEN EncodePngFailed ELSE ToImageFailed)
            /\ pulled = Upto(k + 1)
            /\ converted = Upto(k + 1)
            /\ encoded = Upto(IF FrameAt(k).rgba THEN k + 1 ELSE k)

C7_Witness ==
    /\ MultiDone /\ bytes.valid /\ N = 3
    /\ Good(FrameAt(0)) /\ ~FrameAt(1).rgba /\ ~Good(FrameAt(2))
    /\ result = Err(ToImageFailed)
    /\ Len(list) = 1
    /\ pulled = <<0, 1>>

\* C8: selection is lazy and single-pass: First pulls min(1, N) frames,
\* Specific(n) pulls min(max(1, n), N), Last pulls N; frames are pulled in
\* decode order, never twice, and AwebpSpecificFrameIsNone is returned only
\* once all N frames have been pulled.
C8_LazySelection ==
    (call.fn = "single" /\ bytes.valid) =>
        /\ pulled = Upto(Len(pulled))
        /\ Len(pulled) <= N
        /\ (result = Err(AwebpSpecificFrameIsNone)) => Len(pulled) = N
        /\ Done =>
            /\ (call.pos \in {First, None}) => Len(pulled) = Min(1, N)
            /\ (call.pos.tag = "Specific")
                  => Len(pulled) = Min(Max(1, call.pos.n), N)
            /\ (call.pos = Last) => Len(pulled) = N

C8_Witness ==
    /\ SingleDone /\ bytes.valid /\ N = 3
    /\ call.pos = Specific(4)
    /\ pulled = <<0, 1, 2>>
    /\ result = Err(AwebpSpecificFrameIsNone)
    /\ prev.call.pos = Specific(2)
    /\ prev.call.fn = "single"

\* C9: a single-frame call moves forward only through open, select, convert,
\* encode, each entered at most once; it always terminates, in exactly one
\* outcome: one buffer, or the first error met; after an error no later phase
\* runs.
SinglePhases == <<"open", "select", "convert", "encode">>
C9_Expected ==
    IF ~bytes.valid THEN [r |-> Err(DecodeAwebpFailed), ph |-> 1]
    ELSE IF webp_frame = NoFrame THEN [r |-> Err(AwebpSpecificFrameIsNone), ph |-> 2]
    ELSE IF ~FrameAt(webp_frame).rgba THEN [r |-> Err(ToImageFailed), ph |-> 3]
    ELSE IF ~FrameAt(webp_frame).writable THEN [r |-> Err(EncodePngFailed), ph |-> 4]
    ELSE [r |-> Ok(Encoding(webp_frame)), ph |-> 4]
C9_PhaseInv ==
    (call.fn = "single") =>
        /\ Len(phases) <= 4
        /\ phases = SubSeq(SinglePhases, 1, Len(phases))
        /\ (result # Pending) <=> Done
        /\ Done =>
            /\ result = C9_Expected.r
            /\ Len(phases) = C9_Expected.ph
            /\ result.kind = "Err" => result.err \in AwebpToPngError
C9_Terminal ==
    (call.fn = "single" /\ Done) => (pc' = "open" /\ result' = Pending /\ phases' = <<>>)
C9_SinglePhases ==
    /\ []C9_PhaseInv
    /\ [][C9_Terminal]_vars
    /\ (call.fn = "single" /\ ~Done) ~> Done

C9_Witness ==
    /\ SingleDone /\ bytes.valid /\ N = 2
    /\ call.pos = Last
    /\ ~FrameAt(1).rgba
    /\ result = Err(ToImageFailed)
    /\ phases = <<"open", "select", "convert">>

\* C10: a single-frame call converts and encodes the selected frame only, so
\* its outcome is that frame's outcome whatever the other frames would do.
C10_Selected ==
    IF call.pos.tag = "Specific" THEN Max(1, call.pos.n) - 1
    ELSE IF call.pos = Last THEN N - 1
    ELSE 0
C10_OnlySelected ==
    (call.fn = "single") =>
        /\ Len(converted) <= 1
        /\ Len(encoded) <= 1
        /\ \A j \in 1..Len(converted) : converted[j] = C10_Selected
        /\ \A j \in 1..Len(encoded) : encoded[j] = C10_Selected
        /\ (Done /\ bytes.valid /\ C10_Selected \in 0..(N - 1)) =>
            /\ result = FrameOutcome(FrameAt(C10_Selected))
            /\ converted = <<C10_Selected>>

C10_Witness ==
    /\ SingleDone /\ bytes.valid /\ N = 3
    /\ call.pos = Specific(2)
    /\ ~FrameAt(0).rgba /\ Good(FrameAt(1)) /\ ~FrameAt(2).writable
    /\ pulled = <<0, 1>>
    /\ converted = <<1>>
    /\ result = Ok(Encoding(1))
    /\ prev.call = MultiCall
    /\ prev.result = Err(ToImageFailed)
====
